---- MODULE Spec2Model ----
(***************************************************************************)
(* IndiaSpend chatbot: the conversational turn graph of bot.py (RAGTool,   *)
(* Chatbot) and the question generator of tools.py.                        *)
(*                                                                         *)
(* Texts are sequences of tokens.  A token is a word, a line break "\n" or *)
(* a blank " "; the decision reply of should_use_rag is a sequence of      *)
(* single characters, because the code searches it for a substring.        *)
(* Remote services (chat completion, vector index, QA chain, article feed) *)
(* answer with any value of a small set, or fail.                          *)
(***************************************************************************)
EXTENDS Integers, Sequences, FiniteSets, TLC

VARIABLES
    \* ---- Chatbot (bot.py) ----
    checkpoint,     \* messages held by the MemorySaver checkpointer for the thread
    messages,       \* state['messages'] of the turn being run
    pc,             \* "idle" | "agent" | "tools" | "end" | "failed"
    used_rag,       \* "none" | "yes" | "no": what should_use_rag returned this turn
    rag_result,     \* what RAGTool.retrieve returned this turn
    response,       \* content of the last answer the generation service gave
    error,          \* the remote call that raised this turn, or "none"
    agent_runs,     \* executions of the agent node this turn
    turns,          \* turns started on the thread
    \* ---- RAGTool.retrieve on its own ----
    r_pc,           \* "idle" | "done"
    source_links,   \* source_links before line 50 (collected, not yet deduplicated)
    r_ret,          \* the dict retrieve returned
    \* ---- tools.py ----
    q_pc,           \* "idle" | "returned" | "raised"
    q_fn,           \* "none" | "fetch" | "generate": the function that was called
    feed,           \* the outcome of the feed request (fetch only)
    passed,         \* the article list given to generate_questions_batch
    gen_called,     \* generate_questions_batch was called
    llm_calls,      \* calls of llm.invoke made during the call
    cleaned,        \* cleaned_questions of generate_questions_batch
    q_ret           \* the value returned to the caller

chat_vars == <<checkpoint, messages, pc, used_rag, rag_result, response, error,
               agent_runs, turns>>
r_vars == <<r_pc, source_links, r_ret>>
q_vars == <<q_pc, q_fn, feed, passed, gen_called, llm_calls, cleaned, q_ret>>
vars == <<chat_vars, r_vars, q_vars>>

----------------------------------------------------------------------------
(* Bounds *)

MaxTurns == 2          \* turns on one thread
MaxDocs == 2           \* documents per retrieval when retrieve is run alone
RecursionLimit == 3    \* node executions per turn
MaxArticles == 11      \* articles in a feed response
MaxLines == 21         \* question lines in a generation reply

(* Program constants *)

TopK == 5              \* search_kwargs={"k": 5}
ArticleLimit == 10     \* articles[:10]
QuestionLimit == 20    \* questions[:20]

----------------------------------------------------------------------------
(* Sequences and texts *)

Min(a, b) == IF a <= b THEN a ELSE b

SeqsUpTo(S, n) == UNION {[1..k -> S] : k \in 0..n}

Range(s) == {s[i] : i \in 1..Len(s)}

IsPrefix(s, t) == Len(s) <= Len(t) /\ SubSeq(t, 1, Len(s)) = s

\* Python's `sub in s` on texts.
Contains(s, sub) ==
    \E i \in 0..(Len(s) - Len(sub)) : SubSeq(s, i + 1, i + Len(sub)) = sub

\* Python's sep.join(items) where every item is one token.
RECURSIVE Join(_, _)
Join(items, sep) ==
    IF Len(items) = 0 THEN <<>>
    ELSE IF Len(items) = 1 THEN <<items[1]>>
    ELSE <<items[1], sep>> \o Join(Tail(items), sep)

----------------------------------------------------------------------------
(* RAGTool (bot.py) *)

SourceIds == {"s1", "s2", "s3"}

\* A retrieved document: its metadata either has a 'source' field or not.
Docs(ids) ==
    {[has_source |-> FALSE, source |-> ""]}
        \cup {[has_source |-> TRUE, source |-> s] : s \in ids}

\* The retriever returns at most k documents.
DocLists(n) == SeqsUpTo(Docs(SourceIds), Min(n, TopK))

\* doc.metadata.get('source', 'No source')
metadata_source(doc) == IF doc.has_source THEN doc.source ELSE "No source"

SourcesOf(docs) == [i \in 1..Len(docs) |-> metadata_source(docs[i])]

\* What rag_chain.invoke may return: a dict, with or without the 'result'
\* key, carrying source documents (a missing 'source_documents' key reads as
\* the empty list), or a value that is no dict.
ChainResults(doc_lists) ==
    {[is_dict |-> TRUE, has_result |-> h, result |-> <<"ctx">>, source_documents |-> d] :
        h \in BOOLEAN, d \in doc_lists}
        \cup {[is_dict |-> FALSE, has_result |-> FALSE, result |-> <<>>,
               source_documents |-> <<>>]}

\* source_links as it stands before the deduplication (lines 39-45).
collect_source_links(similar_docs, result) ==
    SourcesOf(similar_docs)
        \o (IF result.is_dict THEN SourcesOf(result.source_documents) ELSE <<>>)

\* response_result (lines 42-47); str(result) is one token.
response_result(result) ==
    IF result.is_dict /\ result.has_result THEN result.result ELSE <<"str(result)">>

\* Keeps the last occurrence of every key instead of the first.
RECURSIVE fromkeys_last(_)
fromkeys_last(seq) ==
    IF seq = <<>> THEN <<>>
    ELSE IF Head(seq) \in Range(Tail(seq)) THEN fromkeys_last(Tail(seq))
    ELSE <<Head(seq)>> \o fromkeys_last(Tail(seq))

\* dict.fromkeys(seq) inserts the keys in order, a key already present keeps
\* its place; list(...) reads the keys back in insertion order.
RECURSIVE FromKeysInto(_, _)
FromKeysInto(seq, keys) ==
    IF seq = <<>> THEN keys
    ELSE FromKeysInto(Tail(seq),
                      IF Head(seq) \in Range(keys) THEN keys
                      ELSE Append(keys, Head(seq)))

fromkeys(seq) == FromKeysInto(seq, <<>>)

retrieve(similar_docs, result) ==
    [result |-> response_result(result),
     sources |-> fromkeys(collect_source_links(similar_docs, result))]

NoRag == [result |-> <<>>, sources |-> <<>>]

----------------------------------------------------------------------------
(* Chatbot (bot.py) *)

Queries == {<<"q1">>, <<"q2">>}

\* Replies of the generation service to the retrieval decision prompt.
DecisionTexts ==
    {<<"y", "e", "s">>, <<"Y", "E", "S", ".">>, <<"n", "o">>, <<"N", "o", ".">>, <<>>}

\* Replies of the generation service to an answer prompt; the persona asks
\* the model to cite sources, so a reply may carry a sources list of its own.
ReplyTexts ==
    {<<"ok">>, <<"ok", "\n", "\n", "Sources:", "\n", "s1">>}

Failed == [ok |-> FALSE, content |-> <<>>]
LlmOutcomes(texts) == {Failed} \cup {[ok |-> TRUE, content |-> t] : t \in texts}

\* The document lists the vector index answers with inside a chat turn.
Doc(s) == [has_source |-> TRUE, source |-> s]
NoSourceDoc == [has_source |-> FALSE, source |-> ""]
ChatDocLists == {<<>>, <<Doc("s1")>>, <<Doc("s2"), NoSourceDoc>>}

RetrieverFailed == [ok |-> FALSE, docs |-> <<>>]
RetrieverOutcomes == {RetrieverFailed} \cup {[ok |-> TRUE, docs |-> d] : d \in ChatDocLists}

ChainFailed ==
    [ok |-> FALSE, value |-> [is_dict |-> FALSE, has_result |-> FALSE,
                              result |-> <<>>, source_documents |-> <<>>]]
ChainOutcomes ==
    {ChainFailed}
        \cup {[ok |-> TRUE, value |-> v] : v \in ChainResults(ChatDocLists)}

HumanMessage(content) == [role |-> "human", content |-> content, tool_calls |-> <<>>]
AIMessage(content) == [role |-> "ai", content |-> content, tool_calls |-> <<>>]
ToolMessage(content) == [role |-> "tool", content |-> content, tool_calls |-> <<>>]

\* str.lower() on a text of single characters.
LowerChar(c) ==
    CASE c = "Y" -> "y" [] c = "E" -> "e" [] c = "S" -> "s"
      [] c = "N" -> "n" [] c = "O" -> "o" [] OTHER -> c

lower(s) == [i \in 1..Len(s) |-> LowerChar(s[i])]

\* "yes" in decision.content.lower()
should_use_rag(decision_content) == Contains(lower(decision_content), <<"y", "e", "s">>)

Footer == <<"\n", "\n", "Sources:", "\n">>

\* Leaves the footer out when there is no source to list.
formatted_response_skip_empty(content, sources) ==
    IF sources = <<>> THEN content ELSE content \o Footer \o Join(sources, "\n")

\* f"{response.content}\n\nSources:\n" + "\n".join(sources)
formatted_response(content, sources) == content \o Footer \o Join(sources, "\n")

\* Appends the footer on the direct path as well.
direct_response_with_footer(content) == formatted_response(content, <<>>)

\* AIMessage(content=response.content)
direct_response(content) == content

\* Catches the error and answers with an apology.
raise_fallback(call, used, rag) ==
    [raised |-> FALSE, error |-> call, update |-> <<AIMessage(<<"sorry">>)>>,
     used_rag |-> used, rag_result |-> rag, response |-> <<>>]

\* No call of call_model is inside a try: the error leaves the handler.
raise(call, used, rag) ==
    [raised |-> TRUE, error |-> call, update |-> <<>>,
     used_rag |-> used, rag_result |-> rag, response |-> <<>>]

return(update, used, rag, content) ==
    [raised |-> FALSE, error |-> "none", update |-> update,
     used_rag |-> used, rag_result |-> rag, response |-> content]

\* The prompts are built from the query and handed to the services; a
\* service's reply is any of its outcomes, whatever the prompt.
call_model(msgs, decision, similar, chain, answer) ==
    IF ~decision.ok THEN raise("decision", "none", NoRag)
    ELSE IF should_use_rag(decision.content) THEN
        IF ~similar.ok THEN raise("retriever", "yes", NoRag)
        ELSE IF ~chain.ok THEN raise("rag_chain", "yes", NoRag)
        ELSE LET rag == retrieve(similar.docs, chain.value) IN
            IF ~answer.ok THEN raise("answer", "yes", rag)
            ELSE return(<<AIMessage(formatted_response(answer.content, rag.sources))>>,
                        "yes", rag, answer.content)
    ELSE IF ~answer.ok THEN raise("direct", "no", NoRag)
    ELSE return(<<AIMessage(direct_response(answer.content))>>,
                "no", NoRag, answer.content)

\* Takes the tools edge when the last message carries no tool call.
router_function_inverted(msgs) ==
    IF msgs[Len(msgs)].tool_calls = <<>> THEN "tools" ELSE "end"

\* "tools" if getattr(last_message, 'tool_calls', None) else END
router_function(msgs) ==
    IF msgs[Len(msgs)].tool_calls # <<>> THEN "tools" ELSE "end"

\* ToolNode(tools=[rag_tool]): one tool message per tool call of the last message.
tool_node(msgs) ==
    LET calls == msgs[Len(msgs)].tool_calls
    IN  [i \in 1..Len(calls) |-> ToolMessage(<<"tool_result">>)]

\* Replaces the channel by the update.
add_messages_overwrite(left, right) == right

\* MessagesState: the reducer of the messages channel appends the update
\* (every message here is new, so none replaces an earlier one by id).
add_messages(left, right) == left \o right

ChatInit ==
    /\ checkpoint = <<>>
    /\ messages = <<>>
    /\ pc = "idle"
    /\ used_rag = "none"
    /\ rag_result = NoRag
    /\ response = <<>>
    /\ error = "none"
    /\ agent_runs = 0
    /\ turns = 0

\* app.invoke({"messages": [HumanMessage(q)]}, thread): the input is added to
\* the thread's checkpointed messages and the graph starts at the agent node.
Invoke ==
    /\ pc = "idle"
    /\ turns < MaxTurns
    /\ \E q \in Queries :
        messages' = add_messages(checkpoint, <<HumanMessage(q)>>)
    /\ pc' = "agent"
    /\ turns' = turns + 1
    /\ agent_runs' = 0
    /\ used_rag' = "none"
    /\ rag_result' = NoRag
    /\ response' = <<>>
    /\ error' = "none"
    /\ UNCHANGED <<checkpoint, r_vars, q_vars>>

\* One node of the compiled graph runs: the agent node (call_model, then the
\* conditional edge router_function) or the tools node (then the edge back
\* to the agent).  A call that is not made has no outcome to choose.
Step ==
    /\ pc \in {"agent", "tools"}
    /\ agent_runs < RecursionLimit
    /\ IF pc = "agent"
       THEN \E decision \in LlmOutcomes(DecisionTexts) :
            \E similar \in (IF decision.ok /\ should_use_rag(decision.content)
                             THEN RetrieverOutcomes ELSE {RetrieverFailed}) :
            \E chain \in (IF similar.ok THEN ChainOutcomes ELSE {ChainFailed}) :
            \E answer \in (IF decision.ok /\ (chain.ok \/ ~should_use_rag(decision.content))
                            THEN LlmOutcomes(ReplyTexts) ELSE {Failed}) :
            LET r == call_model(messages, decision, similar, chain, answer)
                out == add_messages(messages, r.update)
            IN  /\ agent_runs' = agent_runs + 1
                /\ used_rag' = r.used_rag
                /\ rag_result' = r.rag_result
                /\ response' = r.response
                /\ error' = r.error
                /\ IF r.raised
                   THEN /\ pc' = "failed"
                        /\ messages' = messages
                   ELSE /\ messages' = out
                        /\ pc' = router_function(out)
       ELSE /\ messages' = add_messages(messages, tool_node(messages))
            /\ pc' = "agent"
            /\ UNCHANGED <<agent_runs, used_rag, rag_result, response, error>>
    /\ UNCHANGED <<checkpoint, turns, r_vars, q_vars>>

\* The graph reached END: the checkpointer holds the turn's messages.
Finish ==
    /\ pc = "end"
    /\ checkpoint' = messages
    /\ pc' = "idle"
    /\ used_rag' = "none"
    /\ rag_result' = NoRag
    /\ response' = <<>>
    /\ error' = "none"
    /\ UNCHANGED <<messages, agent_runs, turns, r_vars, q_vars>>

\* The error left app.invoke.  Whether the checkpointer kept the turn's human
\* message is the checkpointer's business: both outcomes are allowed.
Abort ==
    /\ pc = "failed"
    /\ \E kept \in BOOLEAN :
        checkpoint' = IF kept THEN messages ELSE checkpoint
    /\ pc' = "idle"
    /\ used_rag' = "none"
    /\ rag_result' = NoRag
    /\ response' = <<>>
    /\ error' = "none"
    /\ UNCHANGED <<messages, agent_runs, turns, r_vars, q_vars>>

----------------------------------------------------------------------------
(* RAGTool.retrieve run on its own *)

RInit ==
    /\ r_pc = "idle"
    /\ source_links = <<>>
    /\ r_ret = NoRag

Retrieve ==
    /\ r_pc = "idle"
    /\ \E similar_docs \in DocLists(MaxDocs),
          result \in ChainResults(DocLists(MaxDocs)) :
        /\ source_links' = collect_source_links(similar_docs, result)
        /\ r_ret' = retrieve(similar_docs, result)
    /\ r_pc' = "done"
    /\ UNCHANGED <<chat_vars, q_vars>>

RetrieveAgain ==
    /\ r_pc = "done"
    /\ r_pc' = "idle"
    /\ source_links' = <<>>
    /\ r_ret' = NoRag
    /\ UNCHANGED <<chat_vars, q_vars>>

----------------------------------------------------------------------------
(* tools.py *)

\* An article field is absent from the dict ("missing"), null or a string.
Article(i, h, d, st) == [id |-> i, heading |-> h, description |-> d, story |-> st]

\* The shapes an article of the feed may have beside the regular one.
OddShapes ==
    {<<"missing", "missing", "missing">>, <<"null", "text", "text">>,
     <<"text", "null", "text">>, <<"text", "text", "null">>}

\* n articles, regular but for the one at position odd (none when odd = 0).
Articles(n, odd, shape) ==
    [i \in 1..n |-> IF i = odd THEN Article(i, shape[1], shape[2], shape[3])
                    ELSE Article(i, "text", "text", "text")]

ArticleLists ==
    {Articles(n, 0, <<"text", "text", "text">>) : n \in 0..MaxArticles}
        \cup UNION {{Articles(n, odd, shape) : odd \in {1, n}, shape \in OddShapes} :
                    n \in 1..MaxArticles}

\* article.get(field, default): the default stands in for an absent field
\* only; a null field is read as None.
get(article, field) == IF article[field] = "missing" THEN "text" ELSE article[field]

\* Lines 25-48: description + " " + story.lower() and story[:500] need both
\* to be strings; the title is only formatted.  TRUE when the prompt of the
\* article is built, FALSE when building it raises.
input_prompt_ok(article) ==
    /\ get(article, "description") # "null"
    /\ get(article, "story") # "null"

IsSpace(t) == t \in {" ", "\n"}

\* str.strip()
RECURSIVE lstrip(_)
lstrip(s) == IF s # <<>> /\ IsSpace(Head(s)) THEN lstrip(Tail(s)) ELSE s

RECURSIVE rstrip(_)
rstrip(s) ==
    IF s # <<>> /\ IsSpace(s[Len(s)]) THEN rstrip(SubSeq(s, 1, Len(s) - 1)) ELSE s

strip(s) == rstrip(lstrip(s))

\* str.split("\n"): the pieces between the line breaks, empty pieces kept.
RECURSIVE SplitInto(_, _, _)
SplitInto(s, piece, pieces) ==
    IF s = <<>> THEN Append(pieces, piece)
    ELSE IF Head(s) = "\n" THEN SplitInto(Tail(s), <<>>, Append(pieces, piece))
    ELSE SplitInto(Tail(s), Append(piece, Head(s)), pieces)

split(s) == SplitInto(s, <<>>, <<>>)

NotBlank(q) == strip(q) # <<>>

\* Lines 61-64: [q.strip() for q in questions if q.strip()]
cleaned_questions(content) ==
    LET questions == SelectSeq(split(strip(content)), NotBlank)
    IN  [i \in 1..Len(questions) |-> strip(questions[i])]

\* Replies of the generation service to the batch prompt: m question lines,
\* bare, padded with blanks, or set apart by blank lines.
Styles == {"bare", "padded", "spaced"}

RECURSIVE ReplyLines(_, _, _)
ReplyLines(i, m, style) ==
    IF i > m THEN <<>>
    ELSE (CASE style = "bare" -> <<ToString(i), "?", "\n">>
            [] style = "padded" -> <<" ", ToString(i), " ", "?", " ", "\n">>
            [] style = "spaced" -> <<"\n", " ", "\n", ToString(i), "?", "\n">>)
         \o ReplyLines(i + 1, m, style)

QuestionTexts == {ReplyLines(1, m, style) : m \in 0..MaxLines, style \in Styles}

\* Takes the whole list.
limit_none(items, n) == items

\* items[:n]
limit(items, n) == SubSeq(items, 1, Min(n, Len(items)))

\* The prompts are built outside the try, the generation call and the
\* cleaning inside it.
generate_questions_batch(articles, llm) ==
    IF \E i \in 1..Len(articles) : ~input_prompt_ok(articles[i])
    THEN [raised |-> TRUE, value |-> <<>>, llm_calls |-> 0]
    ELSE IF ~llm.ok
    THEN [raised |-> FALSE, value |-> <<>>, llm_calls |-> 1]
    ELSE [raised |-> FALSE, value |-> cleaned_questions(llm.content), llm_calls |-> 1]

\* The feed request: requests.get raises, or a response comes back with a
\* status and a body that is JSON or not.
Statuses == {200, 304, 404, 500}

NewsValues ==
    {[present |-> FALSE, null |-> FALSE, list |-> <<>>],
     [present |-> TRUE, null |-> TRUE, list |-> <<>>]}
        \cup {[present |-> TRUE, null |-> FALSE, list |-> l] : l \in ArticleLists}

FeedOutcomes ==
    {[kind |-> "network_error", status |-> 0, json |-> FALSE,
      news |-> [present |-> FALSE, null |-> FALSE, list |-> <<>>]]}
        \cup {[kind |-> "response", status |-> s, json |-> FALSE,
               news |-> [present |-> FALSE, null |-> FALSE, list |-> <<>>]] :
                s \in Statuses}
        \cup {[kind |-> "response", status |-> s, json |-> TRUE, news |-> v] :
                s \in Statuses, v \in NewsValues}

\* Raises for a server error only.
raise_for_status_5xx(status) == 500 <= status /\ status < 600

\* response.raise_for_status() raises HTTPError for a 4xx or 5xx status.
raise_for_status(status) == 400 <= status /\ status < 600

\* str(e) of the exception the feed request raised.
ExceptionText(f) ==
    IF f.kind = "network_error" THEN <<"ConnectionError">>
    ELSE IF raise_for_status(f.status) THEN <<"HTTPError", ToString(f.status)>>
    ELSE <<"JSONDecodeError">>

error_result(f) ==
    [kind |-> "error", message |-> <<"Failed to fetch articles:", " ">> \o ExceptionText(f),
     questions |-> <<>>]

questions_result(questions) ==
    [kind |-> "questions", message |-> <<>>, questions |-> questions]

\* Goes on only when the 'news' field is absent.
no_articles_absent_only(news) == ~news.present

\* data.get("news", []) followed by `if not articles`.
no_articles(news) == ~news.present \/ news.null \/ news.list = <<>>

NoCall == [raised |-> FALSE, value |-> <<>>, llm_calls |-> 0]

\* json_error_caught: the installed requests raises a JSON error that is a
\* RequestException (caught at line 91) or a plain ValueError (not caught).
fetch_questions_on_latest_articles_in_IndiaSpend(f, llm, json_error_caught) ==
    IF f.kind = "network_error" \/ raise_for_status(f.status)
    THEN [raised |-> FALSE, ret |-> error_result(f), called |-> FALSE,
          passed |-> <<>>, gen |-> NoCall]
    ELSE IF ~f.json
    THEN [raised |-> ~json_error_caught,
          ret |-> IF json_error_caught THEN error_result(f) ELSE [kind |-> "none"],
          called |-> FALSE, passed |-> <<>>, gen |-> NoCall]
    ELSE IF no_articles(f.news)
    THEN [raised |-> FALSE, ret |-> questions_result(<<>>), called |-> FALSE,
          passed |-> <<>>, gen |-> NoCall]
    ELSE LET articles == limit(f.news.list, ArticleLimit)
             gen == generate_questions_batch(articles, llm)
         IN  [raised |-> gen.raised,
              ret |-> IF gen.raised THEN [kind |-> "none"]
                      ELSE questions_result(limit(gen.value, QuestionLimit)),
              called |-> TRUE, passed |-> articles, gen |-> gen]

NoFeed ==
    [kind |-> "none", status |-> 0, json |-> FALSE,
     news |-> [present |-> FALSE, null |-> FALSE, list |-> <<>>]]

QInit ==
    /\ q_pc = "idle"
    /\ q_fn = "none"
    /\ feed = NoFeed
    /\ passed = <<>>
    /\ gen_called = FALSE
    /\ llm_calls = 0
    /\ cleaned = <<>>
    /\ q_ret = [kind |-> "none"]

\* A call of fetch_questions_on_latest_articles_in_IndiaSpend().
Fetch ==
    /\ q_pc = "idle"
    /\ \E f \in FeedOutcomes, llm \in LlmOutcomes(QuestionTexts), caught \in BOOLEAN :
        LET r == fetch_questions_on_latest_articles_in_IndiaSpend(f, llm, caught)
        IN  /\ feed' = f
            /\ q_pc' = IF r.raised THEN "raised" ELSE "returned"
            /\ q_ret' = r.ret
            /\ passed' = r.passed
            /\ gen_called' = r.called
            /\ llm_calls' = r.gen.llm_calls
            /\ cleaned' = r.gen.value
    /\ q_fn' = "fetch"
    /\ UNCHANGED <<chat_vars, r_vars>>

\* A call of generate_questions_batch(articles) by another caller.
Generate ==
    /\ q_pc = "idle"
    /\ \E articles \in ArticleLists, llm \in LlmOutcomes(QuestionTexts) :
        LET r == generate_questions_batch(articles, llm)
        IN  /\ q_pc' = IF r.raised THEN "raised" ELSE "returned"
            /\ q_ret' = IF r.raised THEN [kind |-> "none"]
                        ELSE [kind |-> "list", message |-> <<>>, questions |-> r.value]
            /\ passed' = articles
            /\ llm_calls' = r.llm_calls
            /\ cleaned' = r.value
    /\ gen_called' = TRUE
    /\ q_fn' = "generate"
    /\ feed' = NoFeed
    /\ UNCHANGED <<chat_vars, r_vars>>

\* The caller is back and may call again.
CallAgain ==
    /\ q_pc \in {"returned", "raised"}
    /\ q_pc' = "idle"
    /\ q_fn' = "none"
    /\ feed' = NoFeed
    /\ passed' = <<>>
    /\ gen_called' = FALSE
    /\ llm_calls' = 0
    /\ cleaned' = <<>>
    /\ q_ret' = [kind |-> "none"]
    /\ UNCHANGED <<chat_vars, r_vars>>

----------------------------------------------------------------------------
(* Specifications *)

Init == ChatInit /\ RInit /\ QInit

Next == Invoke \/ Step \/ Finish \/ Abort

Spec == Init /\ [][Next]_vars

NextR == Retrieve \/ RetrieveAgain

SpecR == Init /\ [][NextR]_vars

NextQ == Fetch \/ Generate \/ CallAgain

SpecQ == Init /\ [][NextQ]_vars

----------------------------------------------------------------------------
(* Properties *)

Reply == messages[Len(messages)]

TurnAnswered == pc = "end" /\ Len(messages) > 0 /\ Reply.role = "ai"

\* C1: on the retrieval path the emitted reply ends with the line
\* "Sources:" followed by the returned sources, one per line, in their
\* returned order; with no source the reply ends with the "Sources:" line.
C1_ReplyEndsWithSourcesFooter ==
    (pc = "end" /\ used_rag = "yes") =>
        LET c == Reply.content
            src == rag_result.sources
            k == Len(src)
            body == IF k = 0 THEN 0 ELSE 2 * k - 1
            at == Len(c) - body
        IN  /\ Reply.role = "ai"
            /\ at >= 2
            /\ c[at - 1] = "Sources:"
            /\ c[at] = "\n"
            /\ \A i \in 1..k : c[at + 2 * i - 1] = src[i]
            /\ \A i \in 1..(k - 1) : c[at + 2 * i] = "\n"

C1_Witness ==
    /\ TurnAnswered
    /\ used_rag = "yes"
    /\ rag_result.sources = <<"s2", "No source">>

HasSourcesFooter(text) == Contains(text, <<"Sources:", "\n">>)

\* C2 as claimed: on the direct path the emitted reply contains no
\* "Sources:" footer, whatever the generation service replied.
C2_NoFooterOnDirectPath ==
    (pc = "end" /\ used_rag = "no") => ~HasSourcesFooter(Reply.content)

\* C2: on the direct path the emitted reply is the generation service's
\* reply as it came, nothing appended: it contains a "Sources:" footer only
\* when that reply does.
C2_DirectReplyIsRawReply ==
    (pc = "end" /\ used_rag = "no") =>
        /\ Reply.role = "ai"
        /\ Len(Reply.content) = Len(response)
        /\ \A i \in 1..Len(response) : Reply.content[i] = response[i]
        /\ HasSourcesFooter(Reply.content) => HasSourcesFooter(response)

C2_Witness ==
    /\ TurnAnswered
    /\ used_rag = "no"
    /\ ~HasSourcesFooter(response)
    /\ ~HasSourcesFooter(Reply.content)

IsAssistant(m) == m.role = "ai"

\* C4: when a call of the agent node fails, the turn fails and emits no
\* assistant message: the turn's messages stay the history and the human
\* message, and the thread gains no assistant message.
C4_ErrorFailsTurnWithoutReply ==
    [][/\ error' # "none" =>
            /\ pc' = "failed"
            /\ messages' = messages
            /\ Reply.role = "human"
       /\ pc = "failed" =>
            /\ pc' = "idle"
            /\ SelectSeq(checkpoint', IsAssistant) = SelectSeq(checkpoint, IsAssistant)
            /\ Len(checkpoint') <= Len(checkpoint) + 1]_vars

C4_Witness ==
    /\ pc = "failed"
    /\ error = "answer"
    /\ used_rag = "yes"
    /\ Reply.role = "human"

\* C9: the agent's message carries no tool call, the router takes the
\* terminal edge, the tools node is never entered, and a turn that reaches
\* the terminal state ran the agent node exactly once.
C9_ToolsNodeNeverEntered ==
    /\ pc # "tools"
    /\ agent_runs <= 1
    /\ pc = "end" => (agent_runs = 1 /\ Reply.tool_calls = <<>>)

C9_Witness ==
    /\ TurnAnswered
    /\ agent_runs = 1
    /\ used_rag = "yes"
    /\ turns = 2

\* C10: the conversation only grows at its end: every step keeps the
\* thread's messages as a prefix, and a completed turn leaves the prior
\* history followed by the human message and one assistant message.
C10_ConversationAppendOnly ==
    [][/\ IsPrefix(checkpoint, checkpoint')
       /\ IsPrefix(checkpoint', messages')
       /\ (pc = "end" /\ pc' = "idle") =>
            /\ Len(checkpoint') = Len(checkpoint) + 2
            /\ checkpoint'[Len(checkpoint) + 1].role = "human"
            /\ checkpoint'[Len(checkpoint) + 2].role = "ai"]_vars

C10_Witness ==
    /\ pc = "idle"
    /\ turns = 2
    /\ Len(checkpoint) = 4
    /\ checkpoint[2].content # checkpoint[4].content

FirstIndex(s, x) == CHOOSE i \in 1..Len(s) : s[i] = x /\ \A j \in 1..(i - 1) : s[j] # x

\* C3: the returned sources hold every collected identifier exactly once,
\* in the order of first occurrence in the collected sequence.
C3_SourcesDistinctInFirstOccurrenceOrder ==
    r_pc = "done" =>
        LET out == r_ret.sources
        IN  /\ Range(out) = Range(source_links)
            /\ \A i, j \in 1..Len(out) : i < j =>
                /\ out[i] # out[j]
                /\ FirstIndex(source_links, out[i]) < FirstIndex(source_links, out[j])

C3_Witness ==
    /\ r_pc = "done"
    /\ source_links = <<"s1", "s2", "s1", "s3">>
    /\ r_ret.sources = <<"s1", "s2", "s3">>

\* C5 as claimed: generate_questions_batch never raises to its caller.
C5_GenerateNeverRaises ==
    gen_called => q_pc # "raised"

FeedFailed4xx5xx ==
    feed.kind = "network_error" \/ (feed.kind = "response" /\ feed.status >= 400)

ErrorReturned ==
    /\ q_pc = "returned"
    /\ q_ret.kind = "error"
    /\ Contains(q_ret.message, ExceptionText(feed))
    /\ ~gen_called
    /\ llm_calls = 0

\* C6 as claimed: a network error or any non-2xx response yields the error
\* result, and the generation service is not invoked.
C6_ErrorResultOnNon2xx ==
    (q_fn = "fetch" /\
        (feed.kind = "network_error"
            \/ (feed.kind = "response" /\ (feed.status < 200 \/ feed.status > 299))))
        => ErrorReturned

\* C6: a network error or a 4xx or 5xx response yields the error result
\* with the exception's text, and the generation service is not invoked.
C6_ErrorResultOnFailedRequest ==
    (q_fn = "fetch" /\ FeedFailed4xx5xx) => ErrorReturned

C6_Witness ==
    /\ q_fn = "fetch"
    /\ feed.kind = "response"
    /\ feed.status = 404
    /\ feed.json
    /\ feed.news.list # <<>>
    /\ ErrorReturned

\* C7: a 2xx JSON response with an empty news list or without the news
\* field returns no question, and the generation service is not invoked.
C7_NoArticlesNoGeneration ==
    (/\ q_fn = "fetch"
     /\ feed.kind = "response"
     /\ feed.status \in 200..299
     /\ feed.json
     /\ ~feed.news.null
     /\ feed.news.list = <<>>)
        => /\ q_pc = "returned"
           /\ q_ret.kind = "questions"
           /\ q_ret.questions = <<>>
           /\ ~gen_called
           /\ llm_calls = 0

C7_Witness ==
    /\ q_fn = "fetch"
    /\ q_pc = "returned"
    /\ feed.status = 200
    /\ feed.json
    /\ feed.news.present
    /\ ~feed.news.null
    /\ feed.news.list = <<>>

\* C8: with n >= 1 articles the batch gets the first min(n, 10) articles in
\* feed order, and the result holds the first min(m, 20) of the m cleaned
\* questions, never more than 20.
C8_TenArticlesTwentyQuestions ==
    (q_fn = "fetch" /\ gen_called) =>
        LET n == Len(feed.news.list)
            m == Len(cleaned)
        IN  /\ n >= 1
            /\ Len(passed) = (IF n <= 10 THEN n ELSE 10)
            /\ \A i \in 1..Len(passed) : passed[i] = feed.news.list[i]
            /\ q_pc = "returned" =>
                /\ q_ret.kind = "questions"
                /\ Len(q_ret.questions) = (IF m <= 20 THEN m ELSE 20)
                /\ Len(q_ret.questions) <= 20
                /\ \A i \in 1..Len(q_ret.questions) : q_ret.questions[i] = cleaned[i]

C8_Witness ==
    /\ q_fn = "fetch"
    /\ q_pc = "returned"
    /\ Len(feed.news.list) = 11
    /\ Len(passed) = 10
    /\ Len(cleaned) = 21
    /\ Len(q_ret.questions) = 20

====
